---- MODULE Spec2Model ----
(***************************************************************************)
(* The RAG benchmarking dashboard (frontend App component): the pipeline   *)
(* stage machine, the busy flag, the metrics merge and the streaming       *)
(* generation loop with its blocking fallback.                             *)
(*                                                                         *)
(* React state is the model's state.  An async handler is a task: a record *)
(* holding the values its closure captured when the event fired and the    *)
(* await it is suspended at.  The code between two awaits is one action.   *)
(* The view is a function of the state: a user event is enabled exactly    *)
(* when the element it acts on is rendered and not disabled.               *)
(***************************************************************************)
EXTENDS Integers, Sequences, FiniteSets, TLC

VARIABLES
    models,                 \* useState<any[]>([])
    config,                 \* useState<Config>
    file,                   \* useState<File | null>: <<>> is null, <<f>> a file
    query,                  \* useState('')
    results,                \* useState<Result[] | null>: <<>> is null, <<list>> a list
    answer,                 \* useState(''): a sequence of characters
    metrics,                \* useState<Metrics>({}): a function on the keys present
    loading,                \* useState(false)
    step,                   \* useState<'upload'|'process'|'retrieve'|'generate'>
    progress,               \* useState({stage, current, total})
    streamingTokensPerSec,  \* useState(0)
    isStreaming,            \* useState(false)
    initPc,                 \* position of the mount effect (init, fetchModels)
    tasks,                  \* handler invocations suspended at an await
    succeeded,              \* history: the remote operations that have resolved successfully
    returned,               \* history: the metrics fragment each stage returned last
    source,                 \* history: the result lists behind the answer and behind metrics.generation
    ev                      \* history: what the last step did

vars == <<models, config, file, query, results, answer, metrics, loading, step,
          progress, streamingTokensPerSec, isStreaming, initPc, tasks, succeeded,
          returned, source, ev>>

reactState == <<models, config, file, query, results, answer, metrics, loading, step,
                progress, streamingTokensPerSec, isStreaming>>

(***************************************************************************)
(* Bounds and input domains                                                *)
(***************************************************************************)
MaxFrames == 2
MaxChunk == 3

Files == {"doc.pdf"}
Queries == {"q1"}
ModelNames == <<"m1", "m2">>
IngestionFrags == {11}
EmbeddingFrags == {21}
RetrievalFrags == {31, 32}
FallbackFrags == {51}
ChunkCounts == {12}
ResultLists == {<<>>, <<"t1", "t2">>}
FallbackAnswers == {<<"F">>}

Steps == <<"upload", "process", "retrieve", "generate">>

StepRank(s) == CHOOSE i \in 1..Len(Steps) : Steps[i] = s

noProgress == [stage |-> "", current |-> 0, total |-> 0]

(***************************************************************************)
(* Metrics merge: setMetrics(prev => ({ ...prev, [key]: frag }))           *)
(***************************************************************************)
\* a merge that forgets the spread of prev
setMetricsDropPrev(prev, key, frag) == [k \in {key} |-> frag]

setMetrics(prev, key, frag) ==
    [k \in (DOMAIN prev) \cup {key} |-> IF k = key THEN frag ELSE prev[k]]

Has(m, key) == key \in DOMAIN m

(***************************************************************************)
(* Tasks                                                                   *)
(***************************************************************************)
\* kind, pc: the handler and the await it is suspended at
\* cfile, cquery, cresults: the state values its closure captured
\* body, buffer, dec: the unread bytes of the response body, the loop's buffer
\*   and the bytes the TextDecoder holds back
\* history: step0, the step when the handler started; okReqs, the requests of
\*   this invocation that resolved successfully; frames, the frames the stream
\*   carries; cuts, whether a chunk has ended inside a line or inside a
\*   character; gotDone, whether a terminal event was decoded; nGen, the
\*   blocking generate calls issued; cause, why it fell back; metrics0, the
\*   metrics when the handler started; partial, the answer when the catch
\*   block was entered; sent, the requests this invocation has issued
\* cconfig: the config of the render whose handler was called; the handler
\*   reads config.chunkingModel, config.embeddingModel and
\*   config.generationModel from this closure at every request it issues
Task(kind, pc, cfile, cquery, cresults, step0) ==
    [kind |-> kind, pc |-> pc, cfile |-> cfile, cquery |-> cquery,
     cresults |-> cresults, step0 |-> step0,
     body |-> <<>>, buffer |-> <<>>, dec |-> <<>>,
     okReqs |-> {}, frames |-> <<>>, cuts |-> {}, gotDone |-> FALSE, nGen |-> 0,
     cause |-> "none", metrics0 |-> <<>>, partial |-> <<>>,
     cconfig |-> config, sent |-> <<>>]

\* a request as it is issued: the endpoint, the model, query and context
\* (the result list it is joined from) in its payload, and, as history, the
\* value the state holds for that model and for the query at that moment
Req(url, model, q, ctx, key) ==
    [url |-> url, model |-> model, query |-> q, context |-> ctx,
     current |-> config[key], currentQuery |-> query]

RemoveAt(s, i) == [j \in 1..(Len(s) - 1) |-> IF j < i THEN s[j] ELSE s[j + 1]]

\* the last step: the operation it concerns, its outcome, the step recorded when
\* the operation started and, for a generation request that has resolved, how
\* it ended, the frames the stream carried, the number of blocking generate
\* calls it issued, why it fell back, whether a terminal event was decoded, the
\* metrics when it started and the answer when it fell back; for the step that
\* starts a generation request, the answer and the throughput sample it found
Ev(op, ok, step0, how, frames, nGen) ==
    [op |-> op, ok |-> ok, step0 |-> step0, how |-> how, frames |-> frames, nGen |-> nGen,
     cause |-> "none", gotDone |-> FALSE, cuts |-> {}, metrics0 |-> <<>>, partial |-> <<>>,
     answer0 |-> <<>>, tps0 |-> 0]

\* a step that resolves no operation
NoEv == Ev("none", TRUE, "upload", "none", <<>>, 0)

GenEv(t, ok, how) ==
    [op |-> "generate", ok |-> ok, step0 |-> t.step0, how |-> how, frames |-> t.frames,
     nGen |-> t.nGen, cause |-> t.cause, gotDone |-> t.gotDone, cuts |-> t.cuts,
     metrics0 |-> t.metrics0, partial |-> t.partial, answer0 |-> <<>>, tps0 |-> 0]

(***************************************************************************)
(* Mount effect: init posts /reset, then calls fetchModels                 *)
(***************************************************************************)
\* init with fetchModels() moved into the try block, after the await
initInsideTry(ok) ==
    /\ initPc = "await_reset"
    /\ initPc' = IF ok THEN "await_models" ELSE "done"
    /\ ev' = Ev("reset", ok, "upload", "none", <<>>, 0)
    /\ UNCHANGED <<reactState, tasks, succeeded, returned, source>>

init(ok) ==
    /\ initPc = "await_reset"
    /\ initPc' = "await_models"
    /\ ev' = Ev("reset", ok, "upload", "none", <<>>, 0)
    /\ UNCHANGED <<reactState, tasks, succeeded, returned, source>>

fetchModels(ok) ==
    /\ initPc = "await_models"
    /\ initPc' = "done"
    /\ IF ok
         THEN /\ models' = ModelNames
              /\ config' = [config EXCEPT !.chunkingModel = ModelNames[1],
                                          !.embeddingModel = ModelNames[2],
                                          !.generationModel = ModelNames[1]]
         ELSE UNCHANGED <<models, config>>
    /\ ev' = NoEv
    /\ UNCHANGED <<file, query, results, answer, metrics, loading, step, progress,
                   streamingTokensPerSec, isStreaming, tasks, succeeded, returned, source>>

(***************************************************************************)
(* <ConfigPanel>: a Select per configuration key; it is always rendered    *)
(* and never disabled                                                      *)
(***************************************************************************)
ConfigKeys == {"chunkingModel", "embeddingModel", "rerankerModel", "generationModel"}

RerankerOptions == <<"BAAI/bge-reranker-v2-m3">>

\* the items of a Select: models.map(m => m.model), one fixed item for the
\* reranker
SelectItems(key) == IF key = "rerankerModel" THEN RerankerOptions ELSE models

\* onValueChange of a Select, called with an item other than the selected one
ConfigPanel_handleChange(key, value) ==
    /\ \E k \in 1..Len(SelectItems(key)) : SelectItems(key)[k] = value
    /\ value # config[key]
    /\ config' = [config EXCEPT ![key] = value]
    /\ ev' = NoEv
    /\ UNCHANGED <<models, file, query, results, answer, metrics, loading, step, progress,
                   streamingTokensPerSec, isStreaming, initPc, tasks, succeeded, returned,
                   source>>

(***************************************************************************)
(* Upload                                                                  *)
(***************************************************************************)
\* <UploadZone> is rendered while no file is recorded
UploadZoneRendered == file = <<>>

handleUpload(uploadedFile) ==
    /\ loading' = TRUE
    /\ tasks' = Append(tasks, Task("upload", "await_upload", <<uploadedFile>>, "", <<>>, step))
    /\ ev' = NoEv
    /\ UNCHANGED <<models, config, file, query, results, answer, metrics, step, progress,
                   streamingTokensPerSec, isStreaming, initPc, succeeded, returned, source>>

\* handleDrop without its loading check
handleDropUnguarded(f) ==
    /\ UploadZoneRendered
    /\ handleUpload(f)

handleDrop(f) ==
    /\ UploadZoneRendered
    /\ ~loading
    /\ handleUpload(f)

handleChange(f) ==
    /\ UploadZoneRendered
    /\ ~loading
    /\ handleUpload(f)

\* handleUpload_settle with setStep('process') moved into the finally block
handleUpload_settleAlways(i, ok) ==
    /\ tasks[i].pc = "await_upload"
    /\ IF ok
         THEN /\ file' = tasks[i].cfile
              /\ succeeded' = succeeded \cup {"upload"}
              /\ UNCHANGED <<returned, source>>
         ELSE UNCHANGED <<file, succeeded, returned, source>>
    /\ step' = "process"
    /\ loading' = FALSE
    /\ tasks' = RemoveAt(tasks, i)
    /\ ev' = Ev("upload", ok, tasks[i].step0, "none", <<>>, 0)
    /\ UNCHANGED <<models, config, query, results, answer, metrics, progress,
                   streamingTokensPerSec, isStreaming, initPc>>

handleUpload_settle(i, ok) ==
    /\ tasks[i].pc = "await_upload"
    /\ IF ok
         THEN /\ file' = tasks[i].cfile
              /\ step' = "process"
              /\ succeeded' = succeeded \cup {"upload"}
              /\ UNCHANGED <<returned, source>>
         ELSE UNCHANGED <<file, step, succeeded, returned, source>>
    /\ loading' = FALSE
    /\ tasks' = RemoveAt(tasks, i)
    /\ ev' = Ev("upload", ok, tasks[i].step0, "none", <<>>, 0)
    /\ UNCHANGED <<models, config, query, results, answer, metrics, progress,
                   streamingTokensPerSec, isStreaming, initPc>>

(***************************************************************************)
(* Ingest: process, then embed                                             *)
(***************************************************************************)
\* the Start Processing button rendered without its step gate
StartProcessingAnyStep == file # <<>>

\* the Start Processing button is rendered for a recorded file in step 'process'
StartProcessingRendered == file # <<>> /\ step = "process"

handleProcess ==
    /\ StartProcessingRendered
    /\ ~loading
    /\ file # <<>>
    /\ loading' = TRUE
    /\ progress' = [stage |-> "Processing document...", current |-> 0, total |-> 0]
    /\ tasks' = Append(tasks, [Task("process", "await_process", file, "", <<>>, step)
                               EXCEPT !.sent = <<Req("process", config.chunkingModel, "", <<>>,
                                                     "chunkingModel")>>])
    /\ ev' = NoEv
    /\ UNCHANGED <<models, config, file, query, results, answer, metrics, step,
                   streamingTokensPerSec, isStreaming, initPc, succeeded, returned, source>>

\* handleProcess with setLoading(false) at the end of the try block instead of
\* in a finally block
handleProcess_afterProcessNoFinally(i, ok, frag, chunks) ==
    /\ tasks[i].pc = "await_process"
    /\ IF ok
         THEN /\ metrics' = setMetrics(metrics, "ingestion", frag)
              /\ progress' = [stage |-> "Generating embeddings...", current |-> 0,
                              total |-> chunks]
              /\ tasks' = [tasks EXCEPT ![i].pc = "await_embed",
                                          ![i].okReqs = @ \cup {"process"},
                                          ![i].sent = Append(@,
                                              Req("embed", tasks[i].cconfig.embeddingModel,
                                                  "", <<>>, "embeddingModel"))]
              /\ succeeded' = succeeded \cup {"process"}
              /\ returned' = ("ingestion" :> frag) @@ returned
              /\ UNCHANGED source
              /\ ev' = Ev("process", TRUE, tasks[i].step0, "none", <<>>, 0)
         ELSE /\ progress' = noProgress
              /\ tasks' = RemoveAt(tasks, i)
              /\ ev' = Ev("process", FALSE, tasks[i].step0, "none", <<>>, 0)
              /\ UNCHANGED <<metrics, succeeded, returned, source>>
    /\ UNCHANGED <<models, config, file, query, results, answer, step, loading,
                   streamingTokensPerSec, isStreaming, initPc>>

\* handleProcess keeping the ingestion fragment back when /process resolves
handleProcess_afterProcessMergeLate(i, ok, frag, chunks) ==
    /\ tasks[i].pc = "await_process"
    /\ IF ok
         THEN /\ progress' = [stage |-> "Generating embeddings...", current |-> 0,
                              total |-> chunks]
              /\ tasks' = [tasks EXCEPT ![i].pc = "await_embed",
                                          ![i].okReqs = @ \cup {"process"},
                                          ![i].sent = Append(@,
                                              Req("embed", tasks[i].cconfig.embeddingModel,
                                                  "", <<>>, "embeddingModel"))]
              /\ succeeded' = succeeded \cup {"process"}
              /\ returned' = ("ingestion" :> frag) @@ returned
              /\ ev' = Ev("process", TRUE, tasks[i].step0, "none", <<>>, 0)
              /\ UNCHANGED <<metrics, loading, source>>
         ELSE /\ progress' = noProgress
              /\ loading' = FALSE
              /\ tasks' = RemoveAt(tasks, i)
              /\ ev' = Ev("process", FALSE, tasks[i].step0, "none", <<>>, 0)
              /\ UNCHANGED <<metrics, succeeded, returned, source>>
    /\ UNCHANGED <<models, config, file, query, results, answer, step,
                   streamingTokensPerSec, isStreaming, initPc>>

handleProcess_afterProcess(i, ok, frag, chunks) ==
    /\ tasks[i].pc = "await_process"
    /\ IF ok
         THEN /\ metrics' = setMetrics(metrics, "ingestion", frag)
              /\ progress' = [stage |-> "Generating embeddings...", current |-> 0,
                              total |-> chunks]
              /\ tasks' = [tasks EXCEPT ![i].pc = "await_embed",
                                          ![i].okReqs = @ \cup {"process"},
                                          ![i].sent = Append(@,
                                              Req("embed", tasks[i].cconfig.embeddingModel,
                                                  "", <<>>, "embeddingModel"))]
              /\ succeeded' = succeeded \cup {"process"}
              /\ returned' = ("ingestion" :> frag) @@ returned
              /\ UNCHANGED source
              /\ ev' = Ev("process", TRUE, tasks[i].step0, "none", <<>>, 0)
              /\ UNCHANGED loading
         ELSE /\ progress' = noProgress
              /\ loading' = FALSE
              /\ tasks' = RemoveAt(tasks, i)
              /\ ev' = Ev("process", FALSE, tasks[i].step0, "none", <<>>, 0)
              /\ UNCHANGED <<metrics, succeeded, returned, source>>
    /\ UNCHANGED <<models, config, file, query, results, answer, step,
                   streamingTokensPerSec, isStreaming, initPc>>

\* handleProcess merging the embedding fragment whether or not embed succeeded
handleProcess_afterEmbedMergeAlways(i, ok, frag) ==
    /\ tasks[i].pc = "await_embed"
    /\ metrics' = setMetrics(metrics, "embedding", frag)
    /\ IF ok
         THEN /\ step' = "retrieve"
              /\ succeeded' = succeeded \cup {"embed"}
              /\ returned' = ("embedding" :> frag) @@ returned
              /\ UNCHANGED source
         ELSE UNCHANGED <<step, succeeded, returned, source>>
    /\ progress' = noProgress
    /\ loading' = FALSE
    /\ tasks' = RemoveAt(tasks, i)
    /\ ev' = Ev("embed", ok, tasks[i].step0, "none", <<>>, 0)
    /\ UNCHANGED <<models, config, file, query, results, answer,
                   streamingTokensPerSec, isStreaming, initPc>>

\* handleProcess clearing the progress in its catch block only
handleProcess_afterEmbedKeepProgress(i, ok, frag) ==
    /\ tasks[i].pc = "await_embed"
    /\ IF ok
         THEN /\ metrics' = setMetrics(metrics, "embedding", frag)
              /\ step' = "retrieve"
              /\ succeeded' = succeeded \cup {"embed"}
              /\ returned' = ("embedding" :> frag) @@ returned
              /\ UNCHANGED <<progress, source>>
         ELSE /\ progress' = noProgress
              /\ UNCHANGED <<metrics, step, succeeded, returned, source>>
    /\ loading' = FALSE
    /\ tasks' = RemoveAt(tasks, i)
    /\ ev' = Ev("embed", ok, tasks[i].step0, "none", <<>>, 0)
    /\ UNCHANGED <<models, config, file, query, results, answer,
                   streamingTokensPerSec, isStreaming, initPc>>

handleProcess_afterEmbed(i, ok, frag) ==
    /\ tasks[i].pc = "await_embed"
    /\ IF ok
         THEN /\ metrics' = setMetrics(metrics, "embedding", frag)
              /\ step' = "retrieve"
              /\ succeeded' = succeeded \cup {"embed"}
              /\ returned' = ("embedding" :> frag) @@ returned
              /\ UNCHANGED source
         ELSE UNCHANGED <<metrics, step, succeeded, returned, source>>
    /\ progress' = noProgress
    /\ loading' = FALSE
    /\ tasks' = RemoveAt(tasks, i)
    /\ ev' = Ev("embed", ok, tasks[i].step0, "none", <<>>, 0)
    /\ UNCHANGED <<models, config, file, query, results, answer,
                   streamingTokensPerSec, isStreaming, initPc>>

(***************************************************************************)
(* Retrieve                                                                *)
(***************************************************************************)
\* the Retrieval card rendered without its metrics.embedding gate
RetrievalCardAlways == TRUE

\* the Retrieval card is rendered once metrics.embedding is set
RetrievalCardRendered == Has(metrics, "embedding")

setQuery(q) ==
    /\ RetrievalCardRendered
    /\ q # query
    /\ query' = q
    /\ ev' = NoEv
    /\ UNCHANGED <<models, config, file, results, answer, metrics, loading, step, progress,
                   streamingTokensPerSec, isStreaming, initPc, tasks, succeeded, returned, source>>

handleRetrieve ==
    /\ query # ""
    /\ loading' = TRUE
    /\ tasks' = Append(tasks, [Task("retrieve", "await_retrieve", <<>>, query, <<>>, step)
                               EXCEPT !.sent = <<Req("retrieve", config.embeddingModel, query,
                                                     <<>>, "embeddingModel")>>])
    /\ ev' = NoEv
    /\ UNCHANGED <<models, config, file, query, results, answer, metrics, step, progress,
                   streamingTokensPerSec, isStreaming, initPc, succeeded, returned, source>>

\* <Button onClick={handleRetrieve} disabled={loading || !query}>
SearchClick ==
    /\ RetrievalCardRendered
    /\ ~(loading \/ query = "")
    /\ handleRetrieve

\* onKeyDown: e.key === 'Enter' && !loading && query && handleRetrieve()
EnterKey ==
    /\ RetrievalCardRendered
    /\ ~loading
    /\ query # ""
    /\ handleRetrieve

\* handleRetrieve_settle with setStep('retrieve') added to the catch block
handleRetrieve_settleBack(i, ok, list, frag) ==
    /\ tasks[i].pc = "await_retrieve"
    /\ IF ok
         THEN /\ results' = <<list>>
              /\ metrics' = setMetrics(metrics, "retrieval", frag)
              /\ step' = "generate"
              /\ succeeded' = succeeded \cup {"retrieve"}
              /\ returned' = ("retrieval" :> frag) @@ returned
              /\ UNCHANGED source
         ELSE /\ step' = "retrieve"
              /\ UNCHANGED <<results, metrics, succeeded, returned, source>>
    /\ loading' = FALSE
    /\ tasks' = RemoveAt(tasks, i)
    /\ ev' = Ev("retrieve", ok, tasks[i].step0, "none", <<>>, 0)
    /\ UNCHANGED <<models, config, file, query, answer, progress,
                   streamingTokensPerSec, isStreaming, initPc>>

\* handleRetrieve without setStep('generate')
handleRetrieve_settleNoStep(i, ok, list, frag) ==
    /\ tasks[i].pc = "await_retrieve"
    /\ IF ok
         THEN /\ results' = <<list>>
              /\ metrics' = setMetrics(metrics, "retrieval", frag)
              /\ succeeded' = succeeded \cup {"retrieve"}
              /\ returned' = ("retrieval" :> frag) @@ returned
              /\ UNCHANGED <<step, source>>
         ELSE UNCHANGED <<results, metrics, step, succeeded, returned, source>>
    /\ loading' = FALSE
    /\ tasks' = RemoveAt(tasks, i)
    /\ ev' = Ev("retrieve", ok, tasks[i].step0, "none", <<>>, 0)
    /\ UNCHANGED <<models, config, file, query, answer, progress,
                   streamingTokensPerSec, isStreaming, initPc>>

handleRetrieve_settle(i, ok, list, frag) ==
    /\ tasks[i].pc = "await_retrieve"
    /\ IF ok
         THEN /\ results' = <<list>>
              /\ metrics' = setMetrics(metrics, "retrieval", frag)
              /\ step' = "generate"
              /\ succeeded' = succeeded \cup {"retrieve"}
              /\ returned' = ("retrieval" :> frag) @@ returned
              /\ UNCHANGED source
         ELSE UNCHANGED <<results, metrics, step, succeeded, returned, source>>
    /\ loading' = FALSE
    /\ tasks' = RemoveAt(tasks, i)
    /\ ev' = Ev("retrieve", ok, tasks[i].step0, "none", <<>>, 0)
    /\ UNCHANGED <<models, config, file, query, answer, progress,
                   streamingTokensPerSec, isStreaming, initPc>>

(***************************************************************************)
(* Generation: the stream wire                                             *)
(*                                                                         *)
(* A character is a one-character string; a byte is the character itself   *)
(* for ASCII and one of "xC3", "xA9" for the two bytes of U+00E9 in UTF-8.  *)
(***************************************************************************)
DataPrefix == <<"d", "a", "t", "a", ":", " ">>

ContentOpen == <<"{", "\"", "c", "o", "n", "t", "e", "n", "t", "\"", ":", "\"">>
ContentClose == <<"\"", "}">>
TpsText == <<"{", "\"", "t", "o", "k", "e", "n", "s", "_", "p", "e", "r", "_", "s", "e", "c",
             "\"", ":", "4", "2", "}">>
Tps2Text == <<"{", "\"", "t", "o", "k", "e", "n", "s", "_", "p", "e", "r", "_", "s", "e", "c",
              "\"", ":", "4", "3", "}">>
DoneText == <<"{", "\"", "d", "o", "n", "e", "\"", ":", "t", "r", "u", "e", ",",
              "\"", "m", "e", "t", "r", "i", "c", "s", "\"", ":", "{",
              "\"", "g", "e", "n", "e", "r", "a", "t", "i", "o", "n", "_", "t", "i", "m", "e",
              "\"", ":", "4", "1", "}", "}">>
BadText == <<"{", "\"", "c", "o", "n", "t", "e", "n", "t", "\"", ":">>
\* six characters that are not 'data: '
OtherPrefix == <<"e", "v", "e", "n", "t", ":">>

FrameKinds == {"content_a", "content_e", "tps", "tps2", "done", "bad", "blank", "other"}

\* the content payload of a frame kind (empty for the kinds that carry none)
ContentOf(kind) ==
    CASE kind = "content_a" -> <<"a">>
      [] kind = "content_e" -> <<"U+00E9">>
      [] OTHER -> <<>>

\* the line of a frame, without its newline
LineOf(kind) ==
    CASE kind = "content_a" -> DataPrefix \o ContentOpen \o ContentOf(kind) \o ContentClose
      [] kind = "content_e" -> DataPrefix \o ContentOpen \o ContentOf(kind) \o ContentClose
      [] kind = "tps" -> DataPrefix \o TpsText
      [] kind = "tps2" -> DataPrefix \o Tps2Text
      [] kind = "other" -> OtherPrefix \o ContentOpen \o <<"a">> \o ContentClose
      [] kind = "done" -> DataPrefix \o DoneText
      [] kind = "bad" -> DataPrefix \o BadText
      [] OTHER -> <<>>

\* the UTF-8 encoding of a text: U+00E9 takes two bytes, every other character one
Wide(c) == c = "U+00E9"

Utf8(chars) ==
    LET n == Len(chars)
        W(j) == Cardinality({m \in 1..j : Wide(chars[m])})
        CharAt(p) == CHOOSE k \in 1..n : k + W(k - 1) <= p /\ p <= k + W(k)
    IN [p \in 1..(n + W(n)) |->
          LET k == CharAt(p) IN
          IF ~Wide(chars[k]) THEN chars[k]
          ELSE IF p = k + W(k - 1) THEN "xC3" ELSE "xA9"]

\* the bytes of each frame on the wire: its line and the newline ending it
FrameBytes == [kind \in FrameKinds |-> Utf8(LineOf(kind) \o <<"\n">>)]

RECURSIVE WireOf(_)
WireOf(kinds) ==
    IF kinds = <<>> THEN <<>> ELSE FrameBytes[Head(kinds)] \o WireOf(Tail(kinds))

\* the frames whose bytes are cut into chunks in every way: content of one and
\* of two bytes, a sample, a terminal event, a payload that does not parse and
\* the blank line between events
ChunkedFrameKinds == {"content_a", "content_e", "tps", "done", "bad", "blank"}

FrameSeqs == UNION {[1..n -> ChunkedFrameKinds] : n \in 0..MaxFrames}

\* the frames that tell the lines apart: two samples of different value, a
\* payload that does not parse and a line that is an event but for its prefix
LineFrameKinds == {"content_a", "tps", "tps2", "done", "bad", "other"}

LineFrameSeqs == UNION {[1..n -> LineFrameKinds] : n \in 0..MaxFrames}

\* the frames that change what the application shows
AppFrameKinds == {"content_a", "tps", "done"}

AppFrameSeqs == UNION {[1..n -> AppFrameKinds] : n \in 0..MaxFrames}

\* the frames that make streams differ in length and in how they end
LiveFrameKinds == {"content_a", "done"}

LiveFrameSeqs == UNION {[1..n -> LiveFrameKinds] : n \in 0..MaxFrames}


(***************************************************************************)
(* decoder.decode(value, { stream: true }): an incomplete character at the *)
(* end of a chunk is held back for the next call; a malformed sequence     *)
(* decodes to U+FFFD.                                                      *)
(***************************************************************************)
Replacement == "U+FFFD"

\* what the byte at position k of the bytes seen so far decodes to: "" when it
\* yields no character of its own (the lead byte of a complete or still
\* incomplete character)
decodedAt(bytes, k) ==
    LET b == bytes[k] IN
    IF b = "xC3"
      THEN IF k < Len(bytes) /\ bytes[k + 1] # "xA9" THEN Replacement ELSE ""
    ELSE IF b = "xA9"
      THEN IF k > 1 /\ bytes[k - 1] = "xC3" THEN "U+00E9" ELSE Replacement
    ELSE b

decode(pending, chunk) ==
    LET bytes == pending \o chunk
        each == [k \in 1..Len(bytes) |-> decodedAt(bytes, k)]
        held == bytes # <<>> /\ bytes[Len(bytes)] = "xC3"
    IN [out |-> SelectSeq(each, LAMBDA c : c # ""),
        pending |-> IF held THEN <<"xC3">> ELSE <<>>]

(***************************************************************************)
(* buffer.split('\n'), line.startsWith('data: '), JSON.parse               *)
(***************************************************************************)
\* the pieces of chars between its newlines: one more piece than newlines
split(chars) ==
    LET n == Len(chars)
        nl == {k \in 1..n : chars[k] = "\n"}
        cut(i) == IF i = 0 THEN 0
                  ELSE IF i > Cardinality(nl) THEN n + 1
                  ELSE CHOOSE p \in nl : Cardinality({q \in nl : q <= p}) = i
    IN [i \in 1..(Cardinality(nl) + 1) |-> SubSeq(chars, cut(i - 1) + 1, cut(i) - 1)]

startsWith(line, prefix) ==
    /\ Len(line) >= Len(prefix)
    /\ SubSeq(line, 1, Len(prefix)) = prefix

endsWith(line, suffix) ==
    /\ Len(line) >= Len(suffix)
    /\ SubSeq(line, Len(line) - Len(suffix) + 1, Len(line)) = suffix

slice(line, n) == SubSeq(line, n + 1, Len(line))

\* the parsed record: an absent field is <<>>, a present one <<value>>
Parsed(ok, content, tps, done, m) ==
    [ok |-> ok, content |-> content, tokens_per_sec |-> tps, done |-> done, metrics |-> m]

ParseError == Parsed(FALSE, <<>>, <<>>, FALSE, <<>>)

PlainChars(chars) == \A k \in 1..Len(chars) : chars[k] \notin {"\"", "\\", "\n"}

JSONparse(text) ==
    IF text = TpsText THEN Parsed(TRUE, <<>>, <<42>>, FALSE, <<>>)
    ELSE IF text = Tps2Text THEN Parsed(TRUE, <<>>, <<43>>, FALSE, <<>>)
    ELSE IF text = DoneText THEN Parsed(TRUE, <<>>, <<>>, TRUE, <<41>>)
    ELSE IF /\ Len(text) >= Len(ContentOpen) + Len(ContentClose)
            /\ startsWith(text, ContentOpen)
            /\ endsWith(text, ContentClose)
            /\ PlainChars(SubSeq(text, Len(ContentOpen) + 1, Len(text) - Len(ContentClose)))
         THEN Parsed(TRUE, <<SubSeq(text, Len(ContentOpen) + 1, Len(text) - Len(ContentClose))>>,
                     <<>>, FALSE, <<>>)
    ELSE ParseError

(***************************************************************************)
(* Generation: handleGenerate                                              *)
(***************************************************************************)
\* const context = results.map(r => r.text).join("\n\n")
context(rs) ==
    [k \in 1..(IF Len(rs) = 0 THEN 0 ELSE 2 * Len(rs) - 1) |->
        IF k % 2 = 1 THEN rs[(k + 1) \div 2] ELSE "\n\n"]

\* the Generation card is rendered for a non-empty result list, its Generate
\* button while metrics.generation is not set
GenerateButtonRendered ==
    /\ results # <<>>
    /\ Len(results[1]) > 0
    /\ ~Has(metrics, "generation")

\* handleGenerate without setAnswer('') and setStreamingTokensPerSec(0)
handleGenerateKeepAnswer ==
    /\ GenerateButtonRendered
    /\ ~loading
    /\ results # <<>>
    /\ loading' = TRUE
    /\ isStreaming' = TRUE
    /\ tasks' = Append(tasks, [Task("generate", "await_fetch", <<>>, query, results, step)
                                  EXCEPT !.metrics0 = metrics,
                                         !.sent = <<Req("stream", config.generationModel, query,
                                                        context(results[1]),
                                                        "generationModel")>>])
    /\ ev' = [Ev("start_generate", TRUE, step, "none", <<>>, 0)
                 EXCEPT !.answer0 = answer, !.tps0 = streamingTokensPerSec]
    /\ UNCHANGED <<models, config, file, query, results, metrics, step, progress,
                   initPc, succeeded, returned, source, answer, streamingTokensPerSec>>

handleGenerate ==
    /\ GenerateButtonRendered
    /\ ~loading
    /\ results # <<>>
    /\ loading' = TRUE
    /\ isStreaming' = TRUE
    /\ answer' = <<>>
    /\ streamingTokensPerSec' = 0
    /\ tasks' = Append(tasks, [Task("generate", "await_fetch", <<>>, query, results, step)
                                  EXCEPT !.metrics0 = metrics,
                                         !.sent = <<Req("stream", config.generationModel, query,
                                                        context(results[1]),
                                                        "generationModel")>>])
    /\ ev' = [Ev("start_generate", TRUE, step, "none", <<>>, 0)
                 EXCEPT !.answer0 = answer, !.tps0 = streamingTokensPerSec]
    /\ source' = [source EXCEPT !.answer = <<>>]
    /\ UNCHANGED <<models, config, file, query, results, metrics, step, progress,
                   initPc, succeeded, returned>>

\* the catch block reading query, results and config from the state instead of
\* from the handler's closure
fallbackReadsState(t, cause) ==
    [t EXCEPT !.pc = "await_generate", !.nGen = @ + 1, !.cause = cause,
              !.body = <<>>, !.buffer = <<>>, !.dec = <<>>, !.partial = answer,
              !.sent = Append(@, Req("generate", config.generationModel, query,
                                     context(results[1]), "generationModel"))]

\* catch (err): the blocking request is posted with the query, results and
\* config of the handler's closure; the locals of the try block (reader,
\* decoder, buffer) are out of scope
fallback(t, cause) ==
    [t EXCEPT !.pc = "await_generate", !.nGen = @ + 1, !.cause = cause,
              !.body = <<>>, !.buffer = <<>>, !.dec = <<>>, !.partial = answer,
              !.sent = Append(@, Req("generate", t.cconfig.generationModel, t.cquery,
                                     context(t.cresults[1]), "generationModel"))]

\* the fetch of /generate/stream settles: it rejects, resolves with !response.ok,
\* resolves without a body, or resolves with a body carrying the frames
handleGenerate_afterFetch(i, outcome, frames) ==
    /\ tasks[i].pc = "await_fetch"
    /\ IF outcome = "ok"
         THEN tasks' = [tasks EXCEPT ![i].pc = "await_read",
                                     ![i].body = WireOf(frames),
                                     ![i].frames = frames,
                                     ![i].buffer = <<>>,
                                     ![i].dec = <<>>]
         ELSE /\ frames = <<>>
              /\ tasks' = [tasks EXCEPT ![i] = fallback(@, "immediate")]
    /\ ev' = NoEv
    /\ UNCHANGED <<reactState, initPc, succeeded, returned, source>>

\* the body of the for loop with a sample event also written to
\* metrics.generation
applyLineSampleToMetrics(st, line) ==
    IF ~startsWith(line, DataPrefix) THEN st
    ELSE LET data == JSONparse(slice(line, 6)) IN
         IF ~data.ok THEN st
         ELSE [answer |-> IF data.content # <<>> /\ data.content[1] # <<>>
                            THEN st.answer \o data.content[1] ELSE st.answer,
               tps |-> IF data.tokens_per_sec # <<>>
                         THEN data.tokens_per_sec[1] ELSE st.tps,
               metrics |-> IF data.done /\ data.metrics # <<>>
                             THEN setMetrics(st.metrics, "generation", data.metrics[1])
                           ELSE IF data.tokens_per_sec # <<>>
                             THEN setMetrics(st.metrics, "generation", data.tokens_per_sec[1])
                           ELSE st.metrics,
               gotDone |-> st.gotDone \/ data.done]

\* the body of the for loop without its startsWith test
applyLineAnyPrefix(st, line) ==
    LET data == JSONparse(slice(line, 6)) IN
    IF ~data.ok THEN st
    ELSE [answer |-> IF data.content # <<>> /\ data.content[1] # <<>>
                       THEN st.answer \o data.content[1] ELSE st.answer,
          tps |-> IF data.tokens_per_sec # <<>>
                    THEN data.tokens_per_sec[1] ELSE st.tps,
          metrics |-> IF data.done /\ data.metrics # <<>>
                        THEN setMetrics(st.metrics, "generation", data.metrics[1])
                        ELSE st.metrics,
          gotDone |-> st.gotDone \/ data.done]

\* the body of the for loop over the complete lines of a chunk
applyLine(st, line) ==
    IF ~startsWith(line, DataPrefix) THEN st
    ELSE LET data == JSONparse(slice(line, 6)) IN
         IF ~data.ok THEN st
         ELSE [answer |-> IF data.content # <<>> /\ data.content[1] # <<>>
                            THEN st.answer \o data.content[1] ELSE st.answer,
               tps |-> IF data.tokens_per_sec # <<>>
                         THEN data.tokens_per_sec[1] ELSE st.tps,
               metrics |-> IF data.done /\ data.metrics # <<>>
                             THEN setMetrics(st.metrics, "generation", data.metrics[1])
                             ELSE st.metrics,
               gotDone |-> st.gotDone \/ data.done]

\* the for loop left at the first 'data: ' line whose payload does not parse
RECURSIVE applyLinesStopAtBad(_, _)
applyLinesStopAtBad(st, lines) ==
    IF lines = <<>> THEN st
    ELSE IF startsWith(Head(lines), DataPrefix) /\ ~JSONparse(slice(Head(lines), 6)).ok
      THEN st
    ELSE applyLinesStopAtBad(applyLine(st, Head(lines)), Tail(lines))

RECURSIVE applyLines(_, _)
applyLines(st, lines) ==
    IF lines = <<>> THEN st ELSE applyLines(applyLine(st, Head(lines)), Tail(lines))

\* buffer = '' in place of buffer = lines.pop() || ''
popLastCleared(lines) == <<>>

\* lines.pop() || ''
popLast(lines) == lines[Len(lines)]

allButLast(lines) == SubSeq(lines, 1, Len(lines) - 1)

\* one turn of the while loop on a chunk: decode, split, keep the last piece,
\* apply the complete lines in order
processChunk(t, value, st0) ==
    LET d == decode(t.dec, value)
        lines == split(t.buffer \o d.out)
    IN [dec |-> d.pending,
        buffer |-> popLast(lines),
        st |-> applyLines(st0, allButLast(lines))]

\* reader.read() settles: a chunk of n bytes, end of data, or a rejection
handleGenerate_afterRead(i, outcome, n) ==
    /\ tasks[i].pc = "await_read"
    /\ CASE outcome = "chunk" ->
              /\ n \in 1..Len(tasks[i].body)
              /\ \E r \in {processChunk(tasks[i], SubSeq(tasks[i].body, 1, n),
                                        [answer |-> answer, tps |-> streamingTokensPerSec,
                                         metrics |-> metrics, gotDone |-> tasks[i].gotDone])} :
                    /\ tasks' = [tasks EXCEPT ![i].body = SubSeq(@, n + 1, Len(@)),
                                              ![i].dec = r.dec,
                                              ![i].buffer = r.buffer,
                                              ![i].gotDone = r.st.gotDone,
                                              ![i].cuts = @ \cup
                                                  (IF r.buffer # <<>> THEN {"line"} ELSE {})
                                                  \cup (IF r.dec # <<>> THEN {"char"} ELSE {})]
                    /\ answer' = r.st.answer
                    /\ streamingTokensPerSec' = r.st.tps
                    /\ metrics' = r.st.metrics
                    /\ succeeded' = IF r.st.gotDone THEN succeeded \cup {"terminal"}
                                    ELSE succeeded
                    /\ returned' = IF r.st.gotDone THEN ("generation" :> 41) @@ returned
                                   ELSE returned
                    /\ source' = [answer |-> IF r.st.answer # answer
                                               THEN tasks[i].cresults ELSE source.answer,
                                  generation |-> IF r.st.metrics # metrics \/ r.st.gotDone
                                                   THEN tasks[i].cresults
                                                   ELSE source.generation]
                    /\ ev' = NoEv
                    /\ UNCHANGED <<loading, isStreaming>>
         [] outcome = "done" ->
              /\ n = 0
              /\ tasks[i].body = <<>>
              /\ loading' = FALSE
              /\ isStreaming' = FALSE
              /\ tasks' = RemoveAt(tasks, i)
              /\ ev' = GenEv(tasks[i], TRUE, "eof")
              /\ UNCHANGED <<answer, streamingTokensPerSec, metrics, succeeded, returned, source>>
         [] outcome = "reject" ->
              /\ n = Len(tasks[i].body)
              /\ tasks' = [tasks EXCEPT ![i] = fallback(@, "read")]
              /\ ev' = NoEv
              /\ UNCHANGED <<answer, streamingTokensPerSec, metrics, succeeded, returned, source,
                             loading, isStreaming>>
    /\ UNCHANGED <<models, config, file, query, results, step, progress, initPc>>

\* handleGenerate posting the blocking request once more when the fallback fails
handleGenerate_afterFallbackRetry(i, ok, ans, frag) ==
    /\ tasks[i].pc = "await_generate"
    /\ IF ok
         THEN /\ answer' = ans
              /\ metrics' = setMetrics(metrics, "generation", frag)
              /\ succeeded' = succeeded \cup {"generate"}
              /\ returned' = ("generation" :> frag) @@ returned
              /\ source' = [answer |-> tasks[i].cresults, generation |-> tasks[i].cresults]
         ELSE UNCHANGED <<answer, metrics, succeeded, returned, source>>
    /\ IF ok \/ tasks[i].nGen >= 2
         THEN /\ loading' = FALSE
              /\ isStreaming' = FALSE
              /\ tasks' = RemoveAt(tasks, i)
              /\ ev' = GenEv(tasks[i], ok, IF ok THEN "fallback_ok" ELSE "fallback_failed")
         ELSE /\ tasks' = [tasks EXCEPT ![i].nGen = @ + 1]
              /\ ev' = NoEv
              /\ UNCHANGED <<loading, isStreaming>>
    /\ UNCHANGED <<models, config, file, query, results, step, progress,
                   streamingTokensPerSec, initPc>>

\* the blocking /generate settles
handleGenerate_afterFallback(i, ok, ans, frag) ==
    /\ tasks[i].pc = "await_generate"
    /\ IF ok
         THEN /\ answer' = ans
              /\ metrics' = setMetrics(metrics, "generation", frag)
              /\ succeeded' = succeeded \cup {"generate"}
              /\ returned' = ("generation" :> frag) @@ returned
              /\ source' = [answer |-> tasks[i].cresults, generation |-> tasks[i].cresults]
         ELSE UNCHANGED <<answer, metrics, succeeded, returned, source>>
    /\ loading' = FALSE
    /\ isStreaming' = FALSE
    /\ tasks' = RemoveAt(tasks, i)
    /\ ev' = GenEv(tasks[i], ok, IF ok THEN "fallback_ok" ELSE "fallback_failed")
    /\ UNCHANGED <<models, config, file, query, results, step, progress,
                   streamingTokensPerSec, initPc>>

(***************************************************************************)
(* Specification                                                           *)
(***************************************************************************)
Init ==
    /\ models = <<>>
    /\ config = [chunkingModel |-> "", embeddingModel |-> "",
                 rerankerModel |-> "BAAI/bge-reranker-v2-m3", generationModel |-> ""]
    /\ file = <<>>
    /\ query = ""
    /\ results = <<>>
    /\ answer = <<>>
    /\ metrics = <<>>
    /\ loading = FALSE
    /\ step = "upload"
    /\ progress = noProgress
    /\ streamingTokensPerSec = 0
    /\ isStreaming = FALSE
    /\ initPc = "await_reset"
    /\ tasks = <<>>
    /\ succeeded = {}
    /\ returned = <<>>
    /\ source = [answer |-> <<>>, generation |-> <<>>]
    /\ ev = NoEv

Next ==
    \/ \E ok \in BOOLEAN : init(ok)
    \/ \E ok \in BOOLEAN : fetchModels(ok)
    \/ \E f \in Files : handleDrop(f)
    \/ \E f \in Files : handleChange(f)
    \/ \E i \in 1..Len(tasks), ok \in BOOLEAN : handleUpload_settle(i, ok)
    \/ handleProcess
    \/ \E i \in 1..Len(tasks), ok \in BOOLEAN, frag \in IngestionFrags, n \in ChunkCounts :
          handleProcess_afterProcess(i, ok, frag, n)
    \/ \E i \in 1..Len(tasks), ok \in BOOLEAN, frag \in EmbeddingFrags :
          handleProcess_afterEmbed(i, ok, frag)
    \/ \E q \in Queries \cup {""} : setQuery(q)
    \/ SearchClick
    \/ EnterKey
    \/ \E i \in 1..Len(tasks), ok \in BOOLEAN, list \in ResultLists, frag \in RetrievalFrags :
          handleRetrieve_settle(i, ok, list, frag)
    \/ handleGenerate
    \/ \E i \in 1..Len(tasks), outcome \in {"ok", "reject", "http_error", "no_body"},
          frames \in AppFrameSeqs :
          handleGenerate_afterFetch(i, outcome, frames)
    \/ \E i \in 1..Len(tasks), outcome \in {"chunk", "done", "reject"} :
          \E n \in (1..MaxChunk) \cup {Len(tasks[i].body)} :
             handleGenerate_afterRead(i, outcome, n)
    \/ \E i \in 1..Len(tasks), ok \in BOOLEAN, ans \in FallbackAnswers, frag \in FallbackFrags :
          handleGenerate_afterFallback(i, ok, ans, frag)

Spec == Init /\ [][Next]_vars

(***************************************************************************)
(* Every network call eventually resolves or rejects: a handler suspended  *)
(* at an await eventually leaves it.  The body of a response is finite, so *)
(* the reads of a stream end with the end of data or with a rejection.     *)
(***************************************************************************)
Resume ==
    \/ \E i \in 1..Len(tasks), ok \in BOOLEAN : handleUpload_settle(i, ok)
    \/ \E i \in 1..Len(tasks), ok \in BOOLEAN, frag \in IngestionFrags, n \in ChunkCounts :
          handleProcess_afterProcess(i, ok, frag, n)
    \/ \E i \in 1..Len(tasks), ok \in BOOLEAN, frag \in EmbeddingFrags :
          handleProcess_afterEmbed(i, ok, frag)
    \/ \E i \in 1..Len(tasks), ok \in BOOLEAN, list \in ResultLists, frag \in RetrievalFrags :
          handleRetrieve_settle(i, ok, list, frag)
    \/ \E i \in 1..Len(tasks), outcome \in {"ok", "reject", "http_error", "no_body"},
          frames \in LiveFrameSeqs :
          handleGenerate_afterFetch(i, outcome, frames)
    \/ \E i \in 1..Len(tasks), outcome \in {"done", "reject"} :
          \E n \in {0, Len(tasks[i].body)} :
             handleGenerate_afterRead(i, outcome, n)
    \/ \E i \in 1..Len(tasks), ok \in BOOLEAN, ans \in FallbackAnswers, frag \in FallbackFrags :
          handleGenerate_afterFallback(i, ok, ans, frag)

\* the whole application with streams that differ in length and in whether
\* they carry a terminal event
NextLive ==
    \/ \E ok \in BOOLEAN : init(ok)
    \/ \E ok \in BOOLEAN : fetchModels(ok)
    \/ \E f \in Files : handleDrop(f)
    \/ \E f \in Files : handleChange(f)
    \/ handleProcess
    \/ \E q \in Queries \cup {""} : setQuery(q)
    \/ SearchClick
    \/ EnterKey
    \/ handleGenerate
    \/ \E i \in 1..Len(tasks), n \in 1..MaxChunk : handleGenerate_afterRead(i, "chunk", n)
    \/ Resume

SpecLive == Init /\ [][NextLive]_vars /\ WF_vars(Resume)

(***************************************************************************)
(* The generation stage alone: from the state a session is in after its    *)
(* first successful retrieval, with every kind of line on the wire and     *)
(* every way of cutting the wire into chunks                               *)
(***************************************************************************)
InitGenerate ==
    /\ models = ModelNames
    /\ config = [chunkingModel |-> ModelNames[1], embeddingModel |-> ModelNames[2],
                 rerankerModel |-> "BAAI/bge-reranker-v2-m3",
                 generationModel |-> ModelNames[1]]
    /\ file \in {<<f>> : f \in Files}
    /\ query \in Queries
    /\ results \in {<<l>> : l \in ResultLists \ {<<>>}}
    /\ answer = <<>>
    /\ metrics \in {[k \in {"ingestion", "embedding", "retrieval"} |->
                       IF k = "ingestion" THEN a ELSE IF k = "embedding" THEN b ELSE c] :
                    a \in IngestionFrags, b \in EmbeddingFrags, c \in {31}}
    /\ loading = FALSE
    /\ step = "generate"
    /\ progress = noProgress
    /\ streamingTokensPerSec = 0
    /\ isStreaming = FALSE
    /\ initPc = "done"
    /\ tasks = <<>>
    /\ succeeded = {"upload", "process", "embed", "retrieve"}
    /\ returned = metrics
    /\ source = [answer |-> <<>>, generation |-> <<>>]
    /\ ev = NoEv

NextGenerate ==
    \/ handleGenerate
    \/ \E i \in 1..Len(tasks), outcome \in {"ok", "reject", "http_error", "no_body"},
          frames \in FrameSeqs :
          handleGenerate_afterFetch(i, outcome, frames)
    \/ \E i \in 1..Len(tasks), outcome \in {"chunk", "done", "reject"} :
          \E n \in 0..Len(tasks[i].body) :
             handleGenerate_afterRead(i, outcome, n)
    \/ \E i \in 1..Len(tasks), ok \in BOOLEAN, ans \in FallbackAnswers, frag \in FallbackFrags :
          handleGenerate_afterFallback(i, ok, ans, frag)

SpecGenerate == InitGenerate /\ [][NextGenerate]_vars

(***************************************************************************)
(* The generation stage alone, with the lines that differ in prefix,       *)
(* payload and sample on the wire                                          *)
(***************************************************************************)
NextLines ==
    \/ handleGenerate
    \/ \E i \in 1..Len(tasks), outcome \in {"ok", "reject", "http_error", "no_body"},
          frames \in LineFrameSeqs :
          handleGenerate_afterFetch(i, outcome, frames)
    \/ \E i \in 1..Len(tasks), outcome \in {"chunk", "done", "reject"} :
          \E n \in 0..Len(tasks[i].body) :
             handleGenerate_afterRead(i, outcome, n)
    \/ \E i \in 1..Len(tasks), ok \in BOOLEAN, ans \in FallbackAnswers, frag \in FallbackFrags :
          handleGenerate_afterFallback(i, ok, ans, frag)

SpecLines == InitGenerate /\ [][NextLines]_vars

(***************************************************************************)
(* The whole application with the configuration panel and with retrievals  *)
(* that return different passages; the stream carries one answer and its   *)
(* terminal event and is read in one chunk                                 *)
(***************************************************************************)
ConfigFrameSeqs == {<<"content_a", "done">>}

ConfigResultLists == {<<"t1", "t2">>, <<"t3">>}

NextConfig ==
    \/ \E ok \in BOOLEAN : init(ok)
    \/ \E ok \in BOOLEAN : fetchModels(ok)
    \/ \E key \in ConfigKeys, k \in 1..Len(ModelNames) :
          ConfigPanel_handleChange(key, ModelNames[k])
    \/ \E f \in Files : handleDrop(f)
    \/ \E f \in Files : handleChange(f)
    \/ \E i \in 1..Len(tasks), ok \in BOOLEAN : handleUpload_settle(i, ok)
    \/ handleProcess
    \/ \E i \in 1..Len(tasks), ok \in BOOLEAN, frag \in IngestionFrags, n \in ChunkCounts :
          handleProcess_afterProcess(i, ok, frag, n)
    \/ \E i \in 1..Len(tasks), ok \in BOOLEAN, frag \in EmbeddingFrags :
          handleProcess_afterEmbed(i, ok, frag)
    \/ \E q \in Queries \cup {""} : setQuery(q)
    \/ SearchClick
    \/ EnterKey
    \/ \E i \in 1..Len(tasks), ok \in BOOLEAN, list \in ConfigResultLists :
          handleRetrieve_settle(i, ok, list, 31)
    \/ handleGenerate
    \/ \E i \in 1..Len(tasks), outcome \in {"ok", "reject"}, frames \in ConfigFrameSeqs :
          handleGenerate_afterFetch(i, outcome, frames)
    \/ \E i \in 1..Len(tasks), outcome \in {"chunk", "done", "reject"} :
          \E n \in {0, Len(tasks[i].body)} :
             handleGenerate_afterRead(i, outcome, n)
    \/ \E i \in 1..Len(tasks), ok \in BOOLEAN, ans \in FallbackAnswers, frag \in FallbackFrags :
          handleGenerate_afterFallback(i, ok, ans, frag)

SpecConfig == Init /\ [][NextConfig]_vars

(***************************************************************************)
(* Properties                                                              *)
(***************************************************************************)
InFlight(pcs) == {i \in 1..Len(tasks) : tasks[i].pc \in pcs}

\* a user-triggered entry point launches an operation
UserLaunch ==
    \/ \E f \in Files : handleDrop(f)
    \/ \E f \in Files : handleChange(f)
    \/ handleProcess
    \/ SearchClick
    \/ EnterKey
    \/ handleGenerate

\* C1: at most one stage operation is in flight at any time, the busy flag is
\* set while one is, and while it is set no user-triggered entry point (drop,
\* change, Start Processing, Search, Enter, Generate) can launch another.
C1_MutualExclusion ==
    /\ Len(tasks) <= 1
    /\ tasks # <<>> => loading
    /\ loading => ~ENABLED UserLaunch

\* the blocking fallback of a generation is in flight while the Generate and
\* Search buttons are rendered and the query is not empty: only the busy flag
\* keeps them from launching
C1_Witness ==
    /\ Len(tasks) = 1
    /\ tasks[1].pc = "await_generate"
    /\ loading
    /\ GenerateButtonRendered
    /\ RetrievalCardRendered
    /\ query # ""

\* C2: the step never moves to an earlier stage, in the order
\* upload < process < retrieve < generate, whatever operation runs and
\* however it ends.
C2_StepMonotonic == [][StepRank(step') >= StepRank(step)]_vars

\* a retrieval started in step 'generate' has resolved
C2_Witness ==
    /\ ev.op = "retrieve"
    /\ ev.step0 = "generate"
    /\ step = "generate"

StageOps == {"upload", "process", "embed", "retrieve", "generate"}

\* C3: the step changes only when the corresponding operation resolves
\* successfully (upload -> process, embed -> retrieve, retrieve -> generate),
\* and after an operation has failed the step is what it was when the
\* operation started.
C3_StepOnlyOnSuccess ==
    /\ [](ev.op \in StageOps /\ ~ev.ok => step = ev.step0)
    /\ [][step' # step =>
            /\ ev'.ok
            /\ \/ ev'.op = "upload" /\ step' = "process"
               \/ ev'.op = "embed" /\ step' = "retrieve"
               \/ ev'.op = "retrieve" /\ step' = "generate"]_vars

\* embed has failed after process succeeded: the step is still 'process'
C3_Witness ==
    /\ ev.op = "embed"
    /\ ~ev.ok
    /\ step = "process"
    /\ Has(metrics, "ingestion")

\* C4: a process request is in flight only after an upload has succeeded, an
\* embed request only after the process request of the same ingest action has
\* succeeded, a retrieve request only after an embed has succeeded, and a
\* stream or blocking generate request only after a retrieve has succeeded.
C4_Preconditions ==
    \A i \in 1..Len(tasks) :
       /\ tasks[i].pc = "await_process" => "upload" \in succeeded
       /\ tasks[i].pc = "await_embed" => "process" \in tasks[i].okReqs
       /\ tasks[i].pc = "await_retrieve" => "embed" \in succeeded
       /\ tasks[i].pc \in {"await_fetch", "await_read", "await_generate"} =>
             "retrieve" \in succeeded /\ tasks[i].cresults # <<>>

\* an embed request is in flight
C4_Witness == InFlight({"await_embed"}) # {}

\* C5: from step 'retrieve' on, no process or embed request is in flight ever
\* again, and no step, a repeated retrieval included, takes the step back
\* before 'retrieve'.
C5_NoReingest ==
    /\ [](StepRank(step) >= 3 => InFlight({"await_process", "await_embed"}) = {})
    /\ [][StepRank(step) >= 3 => StepRank(step') >= 3]_vars

\* a retrieval started in step 'retrieve' has failed
C5_Witness ==
    /\ ev.op = "retrieve"
    /\ ~ev.ok
    /\ ev.step0 = "retrieve"
    /\ step = "retrieve"

\* the remote successes that put a key into metrics
StageOf(key) ==
    CASE key = "ingestion" -> {"process"}
      [] key = "embedding" -> {"embed"}
      [] key = "retrieval" -> {"retrieve"}
      [] key = "generation" -> {"terminal", "generate"}

\* C6: a key is in metrics only if its stage has resolved successfully at
\* least once in this session (generation: a terminal stream event was
\* decoded or the blocking fallback succeeded).
C6_KeyOnlyAfterSuccess ==
    \A key \in DOMAIN metrics : StageOf(key) \cap succeeded # {}

\* all four keys are present, generation from a terminal event
C6_Witness ==
    /\ DOMAIN metrics = {"ingestion", "embedding", "retrieval", "generation"}
    /\ "generate" \notin succeeded

\* the key a step may merge, given the operation it resolves
MergedKey(e) ==
    CASE e.op = "process" -> "ingestion"
      [] e.op = "embed" -> "embedding"
      [] e.op = "retrieve" -> "retrieval"
      [] OTHER -> "generation"

\* C7: a merge changes only the merged stage's key: every other key present
\* before the step is present after it with the same value.
C7_MergeFrame ==
    [][\A key \in DOMAIN metrics :
          key # MergedKey(ev') => key \in DOMAIN metrics' /\ metrics'[key] = metrics[key]]_vars

\* a retrieval fragment has been merged again with the three other keys present
C7_Witness ==
    /\ ev.op = "retrieve"
    /\ ev.ok
    /\ ev.step0 = "generate"
    /\ DOMAIN metrics = {"ingestion", "embedding", "retrieval", "generation"}

\* the content payloads of the content frames, concatenated in wire order
RECURSIVE ExpectedAnswer(_)
ExpectedAnswer(kinds) ==
    IF kinds = <<>> THEN <<>> ELSE ContentOf(Head(kinds)) \o ExpectedAnswer(Tail(kinds))

\* C8: when a stream of newline-terminated frames has been read to its end,
\* the answer is the concatenation, in wire order, of the content payloads of
\* its content frames, however the bytes were cut into chunks.
C8_ChunkingInvariance ==
    ev.op = "generate" /\ ev.how = "eof" => answer = ExpectedAnswer(ev.frames)

\* a stream of two content frames was read to its end in chunks of which one
\* ended inside a line and one inside a character
C8_Witness ==
    /\ ev.op = "generate"
    /\ ev.how = "eof"
    /\ ev.frames = <<"content_e", "content_a">>
    /\ ev.cuts = {"line", "char"}
    /\ answer = <<"U+00E9", "a">>

\* C9: a stream that reaches end of data without a terminal event makes the
\* controller post the blocking generate request.
C9_EndWithoutTerminalFallsBack ==
    ev.op = "generate" /\ ev.how = "eof" /\ ~ev.gotDone => ev.nGen >= 1

\* C10: a generation request posts the blocking generate request at most
\* once, exactly once when the streaming request fails at once (rejection,
\* HTTP error, no body), and a failed fallback ends the request.
C10_FallbackAtMostOnce ==
    /\ \A i \in 1..Len(tasks) :
          /\ tasks[i].nGen <= 1
          /\ tasks[i].cause = "immediate" => tasks[i].nGen = 1
          /\ tasks[i].pc = "await_generate" <=> tasks[i].nGen = 1
    /\ ev.op = "generate" =>
          /\ ev.nGen <= 1
          /\ ev.cause = "immediate" => ev.nGen = 1
          /\ ev.how \in {"fallback_ok", "fallback_failed"} <=> ev.nGen = 1
          /\ tasks = <<>>

\* the fallback of a stream that failed at once has failed too
C10_Witness ==
    /\ ev.op = "generate"
    /\ ev.how = "fallback_failed"
    /\ ev.cause = "immediate"
    /\ ev.nGen = 1

\* C11: when a generation request that fell back after content was streamed
\* has resolved, the answer does not hold the content streamed before the
\* failure: it is the fallback's answer when the fallback succeeded and holds
\* nothing of the stream when the fallback failed.
C11_PartialDiscarded ==
    ev.op = "generate" /\ ev.nGen >= 1 /\ ev.partial # <<>> =>
       /\ ~startsWith(answer, ev.partial)
       /\ ev.ok => answer \in FallbackAnswers

\* the generation fragment of a metrics value: <<>> when the key is absent
GenerationOf(m) == IF Has(m, "generation") THEN <<m["generation"]>> ELSE <<>>

\* C12: when the streaming attempt and the blocking fallback of a generation
\* request have both failed, metrics.generation is what it was when the
\* request started.
C12_NoFragmentWhenBothFail ==
    ev.op = "generate" /\ ev.how = "fallback_failed" =>
       GenerationOf(metrics) = GenerationOf(ev.metrics0)

\* C13: whenever the step is 'generate', a non-empty list of results is
\* recorded and no operation is in flight, a generation request can be
\* started, also after an earlier generation has completed successfully.
C13_GenerateRepeatable ==
    /\ step = "generate"
    /\ results # <<>>
    /\ Len(results[1]) > 0
    /\ tasks = <<>>
    /\ ~loading
    => ENABLED handleGenerate

Range(seq) == {seq[k] : k \in 1..Len(seq)}

\* the throughput sample a frame kind carries: <<>> for the kinds that carry none
SampleOf(kind) ==
    CASE kind = "tps" -> <<42>>
      [] kind = "tps2" -> <<43>>
      [] OTHER -> <<>>

\* C14: a generation request starts from an empty answer, a throughput
\* sample of 0 and the streaming mark set, whatever an earlier generation
\* left: when the streaming request is issued and until its response arrives
\* the answer is empty and the sample 0, and while the stream is read the
\* answer holds only content of this stream's frames and the sample is 0
\* unless this stream carried a sample.
C14_StartsClean ==
    /\ ev.op = "start_generate" =>
          /\ tasks # <<>>
          /\ tasks[Len(tasks)].pc = "await_fetch"
    /\ \A i \in 1..Len(tasks) :
          /\ tasks[i].pc = "await_fetch" =>
                answer = <<>> /\ streamingTokensPerSec = 0 /\ isStreaming
          /\ tasks[i].pc = "await_read" =>
                /\ isStreaming
                /\ startsWith(ExpectedAnswer(tasks[i].frames), answer)
                /\ streamingTokensPerSec # 0 =>
                      \E kind \in Range(tasks[i].frames) :
                         SampleOf(kind) = <<streamingTokensPerSec>>

\* Generate was clicked over the answer and the throughput sample that an
\* earlier generation had left
C14_Witness ==
    /\ ev.op = "start_generate"
    /\ ev.answer0 # <<>>
    /\ ev.tps0 # 0
    /\ answer = <<>>
    /\ streamingTokensPerSec = 0
    /\ isStreaming

\* the sample of the last frame that carries one, 0 when none does
ExpectedSample(kinds) ==
    LET at == {k \in 1..Len(kinds) : SampleOf(kinds[k]) # <<>>}
    IN IF at = {} THEN 0
       ELSE SampleOf(kinds[CHOOSE k \in at : \A j \in at : j <= k])[1]

\* the frames up to and including the first terminal event
UpToDone(kinds) ==
    LET at == {k \in 1..Len(kinds) : kinds[k] = "done"}
    IN IF at = {} THEN kinds
       ELSE SubSeq(kinds, 1, CHOOSE k \in at : \A j \in at : k <= j)

\* C15: a terminal event merges its metrics under the generation key and
\* ends the loop: when a stream that carried one has been read to its end,
\* the answer and the throughput sample are those of the frames up to the
\* terminal event, and no frame after it has been applied.
C15_TerminalEndsLoop ==
    ev.op = "generate" /\ ev.how = "eof" /\ ev.gotDone =>
       /\ Has(metrics, "generation")
       /\ answer = ExpectedAnswer(UpToDone(ev.frames))
       /\ streamingTokensPerSec = ExpectedSample(UpToDone(ev.frames))

\* the frames whose line starts with 'data: '
Prefixed(kinds) == SelectSeq(kinds, LAMBDA kind : startsWith(LineOf(kind), DataPrefix))

\* metrics.generation after the frames of a stream were applied to metrics m0
ExpectedGeneration(m0, kinds) ==
    IF "done" \in Range(kinds) THEN <<41>> ELSE GenerationOf(m0)

\* C16: a line that does not start with 'data: ' is never interpreted as an
\* event: when a stream has been read to its end, the answer, the throughput
\* sample and metrics.generation are what the lines that start with 'data: '
\* alone give.
C16_UnprefixedIgnored ==
    ev.op = "generate" /\ ev.how = "eof" =>
       /\ answer = ExpectedAnswer(Prefixed(ev.frames))
       /\ streamingTokensPerSec = ExpectedSample(Prefixed(ev.frames))
       /\ GenerationOf(metrics) = ExpectedGeneration(ev.metrics0, Prefixed(ev.frames))

\* a stream with the line 'event:{"content":"a"}' before a sample frame was read
\* to its end: the answer is empty
C16_Witness ==
    /\ ev.op = "generate"
    /\ ev.how = "eof"
    /\ ev.frames = <<"other", "tps2">>
    /\ "line" \in ev.cuts
    /\ answer = <<>>
    /\ streamingTokensPerSec = 43
    /\ ~Has(metrics, "generation")

\* the frames but for the 'data: ' frames whose payload does not parse
Parseable(kinds) ==
    SelectSeq(kinds, LAMBDA kind : ~startsWith(LineOf(kind), DataPrefix)
                                     \/ JSONparse(slice(LineOf(kind), 6)).ok)

\* C17: a 'data: ' frame whose payload does not parse is dropped without
\* effect and neither ends the stream nor makes the request fall back: when
\* the stream has been read to its end no blocking request was posted and the
\* answer, the throughput sample and metrics.generation are what the other
\* frames give, those after the dropped frame included.
C17_MalformedSkipped ==
    ev.op = "generate" /\ ev.how = "eof" =>
       /\ ev.ok
       /\ ev.nGen = 0
       /\ answer = ExpectedAnswer(Parseable(ev.frames))
       /\ streamingTokensPerSec = ExpectedSample(Parseable(ev.frames))
       /\ GenerationOf(metrics) = ExpectedGeneration(ev.metrics0, Parseable(ev.frames))

\* a stream with a frame that does not parse before a terminal event was read
\* to its end in more than one chunk
C17_Witness ==
    /\ ev.op = "generate"
    /\ ev.how = "eof"
    /\ ev.frames = <<"bad", "done">>
    /\ "line" \in ev.cuts
    /\ ev.nGen = 0
    /\ answer = <<>>
    /\ Has(metrics, "generation")

\* the state the view shows once nothing is in flight, without the busy
\* indicators (loading, the progress shown while loading, isStreaming)
shown == <<models, config, file, query, results, answer, metrics, step,
           streamingTokensPerSec>>

\* C18: every failure of a stage operation is reported in the observable
\* state: the step in which a handler ends on a failure of upload, process,
\* embed, retrieve or of a generation with its fallback writes a failure
\* indication, so it changes the state shown beyond clearing the busy
\* indicators.
C18_FailureReported ==
    [][ev'.op \in StageOps /\ ~ev'.ok => shown' # shown]_vars

\* C19: every started stage operation eventually ends with the busy flag
\* cleared, on success and on failure alike, given that every network call
\* eventually resolves or rejects; the busy flag is never set while no
\* operation is in flight.
C19_BusyCleared ==
    /\ [](tasks = <<>> => ~loading)
    /\ (tasks # <<>>) ~> (tasks = <<>> /\ ~loading)

\* a generation whose stream and fallback both failed has resolved and the
\* busy flag is cleared
C19_Witness ==
    /\ ev.op = "generate"
    /\ ev.how = "fallback_failed"
    /\ ev.cause = "read"
    /\ tasks = <<>>
    /\ ~loading
    /\ ~isStreaming

MetricsKeys == {"ingestion", "embedding", "retrieval", "generation"}

\* C20: after upload, process, embed, retrieve and a stream that was read to
\* its end with a terminal event and without fallback, metrics holds exactly
\* the four keys, each with the fragment its stage returned last,
\* metrics.generation is the terminal event's fragment whatever samples the
\* stream carried, and the throughput shown is the last sample.
C20_FullRunMetrics ==
    ev.op = "generate" /\ ev.how = "eof" /\ ev.gotDone /\ ev.nGen = 0 =>
       /\ DOMAIN metrics = MetricsKeys
       /\ DOMAIN returned = MetricsKeys
       /\ \A key \in MetricsKeys : metrics[key] = returned[key]
       /\ metrics["ingestion"] \in IngestionFrags
       /\ metrics["embedding"] \in EmbeddingFrags
       /\ metrics["retrieval"] \in RetrievalFrags
       /\ metrics["generation"] = 41
       /\ streamingTokensPerSec = ExpectedSample(ev.frames)

\* a stream with a sample and then a terminal event was read to its end after
\* the four stages before it succeeded
C20_Witness ==
    /\ ev.op = "generate"
    /\ ev.how = "eof"
    /\ ev.nGen = 0
    /\ ev.frames = <<"tps", "done">>
    /\ ev.step0 = "generate"
    /\ DOMAIN metrics = MetricsKeys
    /\ metrics["generation"] = 41
    /\ streamingTokensPerSec = 42
    /\ {"upload", "process", "embed", "retrieve", "terminal"} \subseteq succeeded

\* C21: the blocking generate request a generation invocation falls back to
\* carries the query, the context and the generation model of the streaming
\* request of the same invocation, whatever the user has edited since.
C21_FallbackSameInputs ==
    \A i \in 1..Len(tasks) :
       tasks[i].pc = "await_generate" =>
          /\ Len(tasks[i].sent) = 2
          /\ tasks[i].sent[1].url = "stream"
          /\ tasks[i].sent[2].url = "generate"
          /\ tasks[i].sent[2].query = tasks[i].sent[1].query
          /\ tasks[i].sent[2].context = tasks[i].sent[1].context
          /\ tasks[i].sent[2].model = tasks[i].sent[1].model

\* a fallback request in flight, issued after the user has edited the query
\* and changed the generation model while the stream was in progress
C21_Witness ==
    \E i \in 1..Len(tasks) :
       /\ tasks[i].pc = "await_generate"
       /\ tasks[i].sent[2].currentQuery # tasks[i].sent[1].currentQuery
       /\ tasks[i].sent[2].current # tasks[i].sent[1].current

\* C22: while the embed request of an ingest action is in flight the fragment
\* process returned is already merged under ingestion, and when the embed
\* request fails the step is still 'process', the ingestion fragment is
\* present and no embedding fragment is.
C22_IngestionBeforeEmbed ==
    /\ \A i \in 1..Len(tasks) :
          tasks[i].pc = "await_embed" =>
             /\ Has(metrics, "ingestion")
             /\ metrics["ingestion"] = returned["ingestion"]
             /\ ~Has(metrics, "embedding")
             /\ step = "process"
    /\ ev.op = "embed" /\ ~ev.ok =>
          /\ step = "process"
          /\ Has(metrics, "ingestion")
          /\ ~Has(metrics, "embedding")

\* the embed request of an ingest action has just failed
C22_Witness ==
    /\ ev.op = "embed"
    /\ ~ev.ok
    /\ tasks = <<>>
    /\ step = "process"
    /\ Has(metrics, "ingestion")

\* C23: every request carries the configuration values the state holds at the
\* moment the request is issued.
C23_RequestsUseCurrentConfig ==
    \A i \in 1..Len(tasks) :
       \A k \in 1..Len(tasks[i].sent) :
          tasks[i].sent[k].model = tasks[i].sent[k].current

\* C24: the reset request is issued once, when the session starts; the model
\* listing is requested when the reset request has settled and not before;
\* the step in which the reset request settles, resolved or rejected, changes
\* nothing the view shows and requests the model listing; and an upload can
\* be started whenever the upload zone is rendered and idle, whatever became
\* of the reset request.
C24_ResetOnceFirst ==
    /\ [](initPc = "await_reset" => models = <<>> /\ ev.op # "reset")
    /\ [][initPc' = "await_reset" => initPc = "await_reset"]_vars
    /\ [][initPc' = "await_models" /\ initPc # "await_models" => ev'.op = "reset"]_vars
    /\ [][ev'.op = "reset" =>
            /\ initPc = "await_reset"
            /\ initPc' = "await_models"
            /\ reactState' = reactState]_vars
    /\ [](UploadZoneRendered /\ ~loading => ENABLED (\E f \in Files : handleDrop(f)))

\* the reset request has just been rejected and the model listing is in flight
C24_Witness ==
    /\ ev.op = "reset"
    /\ ~ev.ok
    /\ initPc = "await_models"
    /\ models = <<>>

\* C25: whenever no handler is in flight the progress snapshot is the cleared
\* one (empty label, current and total 0), and the metrics hold nothing but
\* the stages' fragments under the four stage keys: no label and no chunk
\* count of the progress snapshot.
C25_ProgressCleared ==
    /\ tasks = <<>> => progress = noProgress
    /\ \A key \in DOMAIN metrics :
          /\ key \in MetricsKeys
          /\ metrics[key] = returned[key]
          /\ metrics[key] \notin ChunkCounts

\* an ingest action has just completed: both fragments are merged, the
\* progress is cleared
C25_Witness ==
    /\ ev.op = "embed"
    /\ ev.ok
    /\ tasks = <<>>
    /\ Has(metrics, "ingestion")
    /\ Has(metrics, "embedding")
    /\ progress = noProgress

\* C26: in every state a file is recorded exactly when the step is past
\* 'upload', metrics.embedding is present exactly when the step is 'retrieve'
\* or 'generate', and results are set exactly when the step is 'generate'.
C26_StepMatchesData ==
    /\ file # <<>> <=> step # "upload"
    /\ Has(metrics, "embedding") <=> step \in {"retrieve", "generate"}
    /\ results # <<>> <=> step = "generate"

\* the first retrieval of a session has just succeeded
C26_Witness ==
    /\ ev.op = "retrieve"
    /\ ev.ok
    /\ ev.step0 = "retrieve"
    /\ step = "generate"
    /\ file # <<>>
    /\ Has(metrics, "embedding")
    /\ results # <<>>

\* C27: whenever no handler is in flight and the answer is not empty, the
\* answer, and metrics.generation if present, come from a generation request
\* whose context was built from the results now stored.
C27_AnswerFromStoredResults ==
    tasks = <<>> /\ answer # <<>> =>
       /\ source.answer = results
       /\ Has(metrics, "generation") => source.generation = results

\* C28: once a terminal event of the stream has been merged, the blocking
\* generate request is not issued for that invocation: the invocation ends
\* with the end of the stream, no response of the blocking request having
\* written the answer, and metrics.generation is the fragment of the terminal
\* event.
C28_NoFallbackAfterTerminal ==
    /\ \A i \in 1..Len(tasks) : tasks[i].gotDone => tasks[i].nGen = 0
    /\ ev.op = "generate" /\ ev.gotDone =>
          /\ ev.nGen = 0
          /\ ev.how = "eof"
          /\ GenerationOf(metrics) = <<41>>

\* C29: no handler is in flight while the reset request of the session start
\* is: no stage request is issued before the reset request has settled.
C29_NoStageDuringReset ==
    initPc = "await_reset" => tasks = <<>>

====
